---- MODULE Spec2Model ----
(***************************************************************************)
(* Model of src/prediction/predictor_model.py: the Classifier adapter over *)
(* a decision-tree binary classifier, its module-level wrappers and the    *)
(* predictor.joblib artifact on disk.                                      *)
(*                                                                         *)
(* Floats (thresholds, probabilities, class weights) are fixed-point       *)
(* numbers counted in 1/Unit, so 1.0 is Unit and 0.5 is Unit \div 2.       *)
(* The decision tree, f1_score and joblib are library code: a fitted tree  *)
(* is the table of positive-class probabilities it assigns to each feature *)
(* value, and which table a fit produces is chosen by the library.         *)
(* Inference calls are made on the caller's data, the variable testdata.   *)
(***************************************************************************)
EXTENDS Integers, Sequences, FiniteSets, TLC

VARIABLES
    adapters,   \* the Classifier instances created so far, in order of creation
    dirs,       \* the directories that exist
    files,      \* the content of each predictor.joblib path, NoFile when absent
    testdata,   \* the caller's test table, target column and threshold argument
    op,         \* the last call
    result      \* its outcome: the error raised ("" when none) and the value returned

vars == <<adapters, dirs, files, testdata, op, result>>

\* ------------------------------------------------------------- bounds
\* Classifier instances ever created (constructed or loaded) in one run.
MaxAdapters == 2

\* Rows of an input table.
MaxRows == 2

\* ------------------------------------------------- values and inputs
\* Fixed-point denominator of the floats: 1.0 is Unit.
Unit == 2

\* decision_threshold: float = -1 (the sentinel default of predict/evaluate)
Sentinel == 0 - Unit

\* prob[:, 1]: the column of the positive class
PositiveClass == 1

PREDICTOR_FILE_NAME == "predictor.joblib"

\* Feature values of a row (one feature column).
Features == 0 .. 1

\* Class labels of a target column.
Labels == 0 .. 1

\* Probabilities 0.0 .. 1.0
Probs == 0 .. Unit

\* Floats a caller passes as a threshold: -1.0, 0.0, 0.5, 1.0 and 1.5.
ThresholdValues == {Sentinel, 0, 1, Unit, Unit + 1}

\* Test sets: a table and a target column of the same length, or a column one short.
TestSets ==
    UNION {[1 .. n -> Features] \X ([1 .. n -> Labels] \cup [1 .. n - 1 -> {1}]) :
              n \in 0 .. MaxRows}

\* Directory paths a caller passes.
DirPaths == {"model_dir"}

\* The tables a fitted tree can hold: feature value v has probability tree[v + 1].
FittedTrees == [1 .. Cardinality(Features) -> Probs]

\* Hyperparameter dicts passed to the constructor (floats in 1/Unit):
\* min_samples_split 2.5, min_samples_leaf 1.0, positive_class_weight 1.0.
HyperparameterSets ==
    [min_samples_split : {2 * Unit + 1},
     min_samples_leaf : {Unit},
     decision_threshold : ThresholdValues,
     positive_class_weight : {Unit}]

NoFile == <<>>

\* os.path.join(model_dir_path, PREDICTOR_FILE_NAME)
Path(d) == <<d, PREDICTOR_FILE_NAME>>

\* ------------------------------------------------- outcomes of a call
Ok(v) == [err |-> "", value |-> v]

Raise(e) == [err |-> e, value |-> <<>>]

Call(name, a, d, x, y, t) == [name |-> name, a |-> a, d |-> d, x |-> x, y |-> y, t |-> t]

NoCall == Call("", 0, "", <<>>, <<>>, 0)

\* ------------------------------------------------------ library code
\* int(v): truncation toward zero of a non-negative float
IntCoerce(v) == v \div Unit

\* DecisionTreeClassifier(...).fit(x, y): rejects an empty table and columns of
\* different lengths, otherwise the handle holds the tree the library grew.
TreeFit(model, x, y, tree) ==
    IF Len(x) = 0 \/ Len(x) # Len(y)
    THEN [err |-> "ValueError", model |-> model]
    ELSE [err |-> "", model |-> [model EXCEPT !.kind = "fitted", !.tree = tree]]

\* DecisionTreeClassifier.predict_proba(x): one row <<P(0), P(1)>> per input row
TreePredictProba(model, x) ==
    IF model.kind # "fitted" THEN Raise("NotFittedError")
    ELSE IF Len(x) = 0 THEN Raise("ValueError")
    ELSE Ok([i \in 1 .. Len(x) |-> <<Unit - model.tree[x[i] + 1], model.tree[x[i] + 1]>>])

\* f1_score(y_true, y_pred) as the fraction <<2TP, 2TP + FP + FN>>, 0.0 when undefined
F1Score(y, labels) ==
    IF Len(y) # Len(labels) THEN Raise("ValueError")
    ELSE LET TP == Cardinality({i \in 1 .. Len(y) : y[i] = 1 /\ labels[i]})
             FP == Cardinality({i \in 1 .. Len(y) : y[i] = 0 /\ labels[i]})
             FN == Cardinality({i \in 1 .. Len(y) : y[i] = 1 /\ ~labels[i]})
         IN IF 2 * TP + FP + FN = 0 THEN Ok(<<0, 1>>)
            ELSE Ok(<<2 * TP, 2 * TP + FP + FN>>)

\* joblib.dump(obj, path): the pickle of the object's attributes, in order
Pickle(c) ==
    <<c.min_samples_split, c.min_samples_leaf, c.decision_threshold,
      c.positive_class_weight, c.model, c.is_trained>>

\* a load that rebuilds the object with the default decision_threshold of 0.5
Unpickle_defaultThreshold(blob) ==
    [min_samples_split |-> blob[1], min_samples_leaf |-> blob[2],
     decision_threshold |-> Unit \div 2, positive_class_weight |-> blob[4],
     model |-> blob[5], is_trained |-> blob[6]]

\* joblib.load(path): the object rebuilt from the pickle
Unpickle(blob) ==
    [min_samples_split |-> blob[1], min_samples_leaf |-> blob[2],
     decision_threshold |-> blob[3], positive_class_weight |-> blob[4],
     model |-> blob[5], is_trained |-> blob[6]]

\* ------------------------------------------------- class Classifier
\* build_model that returns no model
build_model_None(min_samples_split, min_samples_leaf, positive_class_weight) ==
    [kind |-> "None",
     min_samples_split |-> min_samples_split,
     min_samples_leaf |-> min_samples_leaf,
     class_weight |-> <<1, positive_class_weight>>,
     tree |-> <<>>]

\* Classifier.build_model
build_model(min_samples_split, min_samples_leaf, positive_class_weight) ==
    [kind |-> "unfitted",
     min_samples_split |-> min_samples_split,
     min_samples_leaf |-> min_samples_leaf,
     class_weight |-> <<1, positive_class_weight>>,
     tree |-> <<>>]

\* __init__ that marks the new instance trained
init_trained(hp) ==
    [min_samples_split |-> IntCoerce(hp.min_samples_split),
     min_samples_leaf |-> IntCoerce(hp.min_samples_leaf),
     decision_threshold |-> hp.decision_threshold,
     positive_class_weight |-> hp.positive_class_weight,
     model |-> build_model(IntCoerce(hp.min_samples_split),
                           IntCoerce(hp.min_samples_leaf),
                           hp.positive_class_weight),
     is_trained |-> TRUE]

\* Classifier.__init__(**hp)
init(hp) ==
    [min_samples_split |-> IntCoerce(hp.min_samples_split),
     min_samples_leaf |-> IntCoerce(hp.min_samples_leaf),
     decision_threshold |-> hp.decision_threshold,
     positive_class_weight |-> hp.positive_class_weight,
     model |-> build_model(IntCoerce(hp.min_samples_split),
                           IntCoerce(hp.min_samples_leaf),
                           hp.positive_class_weight),
     is_trained |-> FALSE]

\* fit that clears the flag when the library's fit raises
fit_clearsOnError(self, train_inputs, train_targets, tree) ==
    LET fitted == TreeFit(self.model, train_inputs, train_targets, tree)
    IN IF fitted.err # ""
       THEN [err |-> fitted.err, self |-> [self EXCEPT !.is_trained = FALSE]]
       ELSE [err |-> "", self |-> [self EXCEPT !.model = fitted.model, !.is_trained = TRUE]]

\* Classifier.fit: the library's fit raises before the flag is set
fit(self, train_inputs, train_targets, tree) ==
    LET fitted == TreeFit(self.model, train_inputs, train_targets, tree)
    IN IF fitted.err # ""
       THEN [err |-> fitted.err, self |-> self]
       ELSE [err |-> "", self |-> [self EXCEPT !.model = fitted.model, !.is_trained = TRUE]]

\* Classifier.predict_proba
predict_proba(self, inputs) ==
    IF self.model.kind = "None" THEN Raise("AttributeError")
    ELSE TreePredictProba(self.model, inputs)

\* predict with a strict comparison
predict_strict(self, inputs, decision_threshold) ==
    LET threshold == IF decision_threshold = Sentinel
                     THEN self.decision_threshold
                     ELSE decision_threshold
    IN IF self.model.kind # "None"
       THEN LET prob == predict_proba(self, inputs)
            IN IF prob.err # "" THEN prob
               ELSE Ok([i \in 1 .. Len(inputs) |->
                           prob.value[i][PositiveClass + 1] > threshold])
       ELSE Raise("UnboundLocalError")

\* Classifier.predict
predict(self, inputs, decision_threshold) ==
    LET threshold == IF decision_threshold = Sentinel
                     THEN self.decision_threshold
                     ELSE decision_threshold
    IN IF self.model.kind # "None"
       THEN LET prob == predict_proba(self, inputs)
            IN IF prob.err # "" THEN prob
               ELSE Ok([i \in 1 .. Len(inputs) |->
                           prob.value[i][PositiveClass + 1] >= threshold])
       ELSE Raise("UnboundLocalError")

\* evaluate that compares with the argument even when it is the sentinel
evaluate_noSentinel(self, test_inputs, test_targets, decision_threshold) ==
    IF self.model.kind # "None"
    THEN LET prob == predict_proba(self, test_inputs)
         IN IF prob.err # "" THEN prob
            ELSE F1Score(test_targets,
                         [i \in 1 .. Len(test_inputs) |->
                             prob.value[i][PositiveClass + 1] >= decision_threshold])
    ELSE Ok(<<>>)

\* Classifier.evaluate
evaluate(self, test_inputs, test_targets, decision_threshold) ==
    LET threshold == IF decision_threshold = Sentinel
                     THEN self.decision_threshold
                     ELSE decision_threshold
    IN IF self.model.kind # "None"
       THEN LET prob == predict_proba(self, test_inputs)
            IN IF prob.err # "" THEN prob
               ELSE F1Score(test_targets,
                            [i \in 1 .. Len(test_inputs) |->
                                prob.value[i][PositiveClass + 1] >= threshold])
       ELSE Ok(<<>>)

\* save that writes the file before it checks the flag
save_dumpsFirst(self, fs, ds, model_dir_path) ==
    IF model_dir_path \notin ds THEN [err |-> "FileNotFoundError", files |-> fs]
    ELSE [err |-> IF self.is_trained THEN "" ELSE "NotFittedError",
          files |-> [fs EXCEPT ![Path(model_dir_path)] = Pickle(self)]]

\* save without the check of the flag
save_noCheck(self, fs, ds, model_dir_path) ==
    IF model_dir_path \notin ds THEN [err |-> "FileNotFoundError", files |-> fs]
    ELSE [err |-> "", files |-> [fs EXCEPT ![Path(model_dir_path)] = Pickle(self)]]

\* Classifier.save: the files after the call, and the error raised
save(self, fs, ds, model_dir_path) ==
    IF ~self.is_trained THEN [err |-> "NotFittedError", files |-> fs]
    ELSE IF model_dir_path \notin ds THEN [err |-> "FileNotFoundError", files |-> fs]
    ELSE [err |-> "", files |-> [fs EXCEPT ![Path(model_dir_path)] = Pickle(self)]]

\* Classifier.load
load(fs, ds, model_dir_path) ==
    IF model_dir_path \notin ds \/ fs[Path(model_dir_path)] = NoFile
    THEN Raise("FileNotFoundError")
    ELSE Ok(Unpickle(fs[Path(model_dir_path)]))

\* ------------------------------------------- module-level functions
train_predictor_model(train_inputs, train_targets, hyperparameters, tree) ==
    fit(init(hyperparameters), train_inputs, train_targets, tree)

predict_with_model(classifier, data, return_probs) ==
    IF return_probs THEN predict_proba(classifier, data)
    ELSE predict(classifier, data, Sentinel)

\* save_predictor_model without os.makedirs
save_predictor_model_noMakedirs(model, fs, ds, predictor_dir_path) ==
    LET saved == save(model, fs, ds, predictor_dir_path)
    IN [err |-> saved.err, dirs |-> ds, files |-> saved.files]

\* save_predictor_model: the directories and files after the call, and the error
save_predictor_model(model, fs, ds, predictor_dir_path) ==
    LET made == IF predictor_dir_path \notin ds
                THEN ds \cup {predictor_dir_path}
                ELSE ds
        saved == save(model, fs, made, predictor_dir_path)
    IN [err |-> saved.err, dirs |-> made, files |-> saved.files]

load_predictor_model(fs, ds, predictor_dir_path) ==
    load(fs, ds, predictor_dir_path)

evaluate_predictor_model(model, x_test, y_test, decision_threshold) ==
    evaluate(model, x_test, y_test, decision_threshold)

\* set_decision_threshold that clamps the value to [0, 1]
set_decision_threshold_clamped(model, decision_threshold) ==
    [model EXCEPT !.decision_threshold =
        IF decision_threshold > Unit THEN Unit
        ELSE IF decision_threshold < 0 THEN 0
        ELSE decision_threshold]

set_decision_threshold(model, decision_threshold) ==
    [model EXCEPT !.decision_threshold = decision_threshold]

\* ---------------------------------------------------------- actions
Ids == 1 .. Len(adapters)

\* c = Classifier(**hp)
Construct(hp) ==
    /\ Len(adapters) < MaxAdapters
    /\ adapters' = Append(adapters, init(hp))
    /\ op' = Call("construct", Len(adapters) + 1, "", <<>>, <<>>, hp.decision_threshold)
    /\ result' = Ok(<<>>)
    /\ UNCHANGED <<dirs, files, testdata>>

\* adapters[a].fit(x, y)
Fit(a, x, y, tree) ==
    LET out == fit(adapters[a], x, y, tree)
    IN /\ adapters' = [adapters EXCEPT ![a] = out.self]
       /\ op' = Call("fit", a, "", x, y, 0)
       /\ result' = [err |-> out.err, value |-> <<>>]
       /\ UNCHANGED <<dirs, files, testdata>>

\* adapters[a].predict(x, t)
Predict(a, x, t) ==
    /\ op' = Call("predict", a, "", x, <<>>, t)
    /\ result' = predict(adapters[a], x, t)
    /\ UNCHANGED <<adapters, dirs, files, testdata>>

\* adapters[a].predict_proba(x)
PredictProba(a, x) ==
    /\ op' = Call("predict_proba", a, "", x, <<>>, 0)
    /\ result' = predict_proba(adapters[a], x)
    /\ UNCHANGED <<adapters, dirs, files, testdata>>

\* adapters[a].evaluate(x, y, t)
Evaluate(a, x, y, t) ==
    /\ op' = Call("evaluate", a, "", x, y, t)
    /\ result' = evaluate(adapters[a], x, y, t)
    /\ UNCHANGED <<adapters, dirs, files, testdata>>

\* adapters[a].save(d)
Save(a, d) ==
    LET out == save(adapters[a], files, dirs, d)
    IN /\ files' = out.files
       /\ op' = Call("save", a, d, <<>>, <<>>, 0)
       /\ result' = [err |-> out.err, value |-> <<>>]
       /\ UNCHANGED <<adapters, dirs, testdata>>

\* c = Classifier.load(d): a new instance when the call returns one
Load(d) ==
    LET out == load(files, dirs, d)
    IN /\ out.err = "" => Len(adapters) < MaxAdapters
       /\ adapters' = IF out.err = "" THEN Append(adapters, out.value) ELSE adapters
       /\ op' = Call("load", IF out.err = "" THEN Len(adapters) + 1 ELSE 0, d, <<>>, <<>>, 0)
       /\ result' = [err |-> out.err, value |-> <<>>]
       /\ UNCHANGED <<dirs, files, testdata>>

\* c = train_predictor_model(x, y, hp): no instance is returned when fit raises
TrainPredictorModel(x, y, hp, tree) ==
    LET out == train_predictor_model(x, y, hp, tree)
    IN /\ Len(adapters) < MaxAdapters
       /\ adapters' = IF out.err = "" THEN Append(adapters, out.self) ELSE adapters
       /\ op' = Call("train_predictor_model", IF out.err = "" THEN Len(adapters) + 1 ELSE 0,
                     "", x, y, hp.decision_threshold)
       /\ result' = [err |-> out.err, value |-> <<>>]
       /\ UNCHANGED <<dirs, files, testdata>>

\* predict_with_model(adapters[a], x, return_probs)
PredictWithModel(a, x, return_probs) ==
    /\ op' = Call(IF return_probs THEN "predict_with_model_probs" ELSE "predict_with_model",
                  a, "", x, <<>>, Sentinel)
    /\ result' = predict_with_model(adapters[a], x, return_probs)
    /\ UNCHANGED <<adapters, dirs, files, testdata>>

\* save_predictor_model(adapters[a], d)
SavePredictorModel(a, d) ==
    LET out == save_predictor_model(adapters[a], files, dirs, d)
    IN /\ dirs' = out.dirs
       /\ files' = out.files
       /\ op' = Call("save_predictor_model", a, d, <<>>, <<>>, 0)
       /\ result' = [err |-> out.err, value |-> <<>>]
       /\ UNCHANGED <<adapters, testdata>>

\* c = load_predictor_model(d)
LoadPredictorModel(d) ==
    LET out == load_predictor_model(files, dirs, d)
    IN /\ out.err = "" => Len(adapters) < MaxAdapters
       /\ adapters' = IF out.err = "" THEN Append(adapters, out.value) ELSE adapters
       /\ op' = Call("load_predictor_model", IF out.err = "" THEN Len(adapters) + 1 ELSE 0,
                     d, <<>>, <<>>, 0)
       /\ result' = [err |-> out.err, value |-> <<>>]
       /\ UNCHANGED <<dirs, files, testdata>>

\* evaluate_predictor_model(adapters[a], x, y, t)
EvaluatePredictorModel(a, x, y, t) ==
    /\ op' = Call("evaluate_predictor_model", a, "", x, y, t)
    /\ result' = evaluate_predictor_model(adapters[a], x, y, t)
    /\ UNCHANGED <<adapters, dirs, files, testdata>>

\* set_decision_threshold(adapters[a], v)
SetDecisionThreshold(a, v) ==
    /\ adapters' = [adapters EXCEPT ![a] = set_decision_threshold(adapters[a], v)]
    /\ op' = Call("set_decision_threshold", a, "", <<>>, <<>>, v)
    /\ result' = Ok(<<>>)
    /\ UNCHANGED <<dirs, files, testdata>>

\* ------------------------------------- the adapter's life: Spec
\* Thresholds given to the constructor and to set_decision_threshold: 0.5 and 1.5.
ConfigThresholds == {1, Unit + 1}

ConfigHyperparameters == {hp \in HyperparameterSets : hp.decision_threshold \in ConfigThresholds}

\* Trees the library grows in a run: P(1) is 0.0 or 0.5 for feature 0 and 1.0 for feature 1.
GrownTrees == {tree \in FittedTrees : tree[1] < Unit /\ tree[2] = Unit}

\* Training sets: a valid one and an empty one.
TrainingSets == {<<<<0, 1>>, <<0, 1>>>>, <<<<>>, <<>>>>}

\* The caller's data in a run: two rows, both classes, the default threshold or 0.5.
ProbeData == {[x |-> <<0, 1>>, y |-> <<1, 0>>, t |-> t] : t \in {Sentinel, 1}}

\* No instance yet and an empty file system.
Init ==
    /\ adapters = <<>>
    /\ dirs = {}
    /\ files = [p \in {Path(d) : d \in DirPaths} |-> NoFile]
    /\ testdata \in ProbeData
    /\ op = NoCall
    /\ result = Ok(<<>>)

Next ==
    \/ \E hp \in ConfigHyperparameters : Construct(hp)
    \/ \E a \in Ids, s \in TrainingSets, tree \in GrownTrees : Fit(a, s[1], s[2], tree)
    \/ \E a \in Ids : Predict(a, testdata.x, testdata.t)
    \/ \E a \in Ids : PredictProba(a, testdata.x)
    \/ \E a \in Ids : Evaluate(a, testdata.x, testdata.y, testdata.t)
    \/ \E a \in Ids, d \in DirPaths : Save(a, d)
    \/ \E d \in DirPaths : Load(d)
    \/ \E s \in TrainingSets, hp \in ConfigHyperparameters, tree \in GrownTrees :
          TrainPredictorModel(s[1], s[2], hp, tree)
    \/ \E a \in Ids, return_probs \in BOOLEAN : PredictWithModel(a, testdata.x, return_probs)
    \/ \E a \in Ids, d \in DirPaths : SavePredictorModel(a, d)
    \/ \E d \in DirPaths : LoadPredictorModel(d)
    \/ \E a \in Ids : EvaluatePredictorModel(a, testdata.x, testdata.y, testdata.t)
    \/ \E a \in Ids, v \in ConfigThresholds : SetDecisionThreshold(a, v)

Spec == Init /\ [][Next]_vars

\* --------------------------- inference on one adapter: SpecInference
\* Every adapter the constructor and fit can produce.
ReachableAdapters ==
    {init(hp) : hp \in HyperparameterSets}
        \cup {fit(init(hp), <<0>>, <<0>>, tree).self :
                 hp \in HyperparameterSets, tree \in FittedTrees}

\* One adapter, untrained or trained, and any test set and threshold argument.
InitInference ==
    /\ adapters \in {<<c>> : c \in ReachableAdapters}
    /\ dirs = {}
    /\ files = [p \in {Path(d) : d \in DirPaths} |-> NoFile]
    /\ testdata \in {[x |-> s[1], y |-> s[2], t |-> t] : s \in TestSets, t \in ThresholdValues}
    /\ op = NoCall
    /\ result = Ok(<<>>)

NextInference ==
    \/ \E a \in Ids : Predict(a, testdata.x, testdata.t)
    \/ \E a \in Ids : PredictProba(a, testdata.x)
    \/ \E a \in Ids : Evaluate(a, testdata.x, testdata.y, testdata.t)
    \/ \E a \in Ids, return_probs \in BOOLEAN : PredictWithModel(a, testdata.x, return_probs)
    \/ \E a \in Ids : EvaluatePredictorModel(a, testdata.x, testdata.y, testdata.t)
    \/ \E a \in Ids, v \in ThresholdValues : SetDecisionThreshold(a, v)

SpecInference == InitInference /\ [][NextInference]_vars

\* ----------------------------------------------------------- claims
Saves == {"save", "save_predictor_model"}

Loads == {"load", "load_predictor_model"}

\* C1: save on an adapter whose trained flag is false raises NotFittedError,
\* whatever the directory, and leaves every file and directory as it was.
C1_SaveUntrainedWritesNothing ==
    [][(op'.name = "save" /\ ~adapters[op'.a].is_trained)
          => (result'.err = "NotFittedError" /\ files' = files /\ dirs' = dirs)]_vars

\* An untrained adapter's save has just failed on an existing directory that holds no file.
C1_Witness ==
    /\ op.name = "save"
    /\ ~adapters[op.a].is_trained
    /\ result.err = "NotFittedError"
    /\ op.d \in dirs
    /\ files[Path(op.d)] = NoFile

\* C2: once an instance's trained flag is true it is true after every later
\* call, the failing ones included.
C2_TrainedIsOneWay ==
    [][\A a \in Ids : adapters[a].is_trained => adapters'[a].is_trained]_vars

\* A fit has just failed on an adapter that was trained before, and the flag is still true.
C2_Witness ==
    /\ op.name = "fit"
    /\ result.err # ""
    /\ adapters[op.a].is_trained

\* C3: the constructor returns an untrained instance, and an untrained instance
\* becomes trained only by a fit on it that completes; a new instance is trained
\* only when train_predictor_model fitted it or a load rebuilt it.
C3_ConstructedUntrained ==
    [][/\ op'.name = "construct" => ~adapters'[op'.a].is_trained
       /\ \A a \in Ids :
             (~adapters[a].is_trained /\ adapters'[a].is_trained)
                => (op'.name = "fit" /\ op'.a = a /\ result'.err = "")
       /\ (Len(adapters') > Len(adapters) /\ adapters'[Len(adapters')].is_trained)
             => op'.name \in {"train_predictor_model"} \cup Loads]_vars

\* A fit has just failed on a constructed adapter, which is still untrained.
C3_Witness ==
    /\ op.name = "fit"
    /\ result.err # ""
    /\ ~adapters[op.a].is_trained

C5_SaveLoadRoundTrip ==
    [][/\ (op'.name \in Saves /\ result'.err = "")
             => LET loaded == load(files', dirs', op'.d)
                    saved == adapters[op'.a]
                IN /\ loaded = Ok(saved)
                   /\ predict(loaded.value, testdata.x, testdata.t)
                         = predict(saved, testdata.x, testdata.t)
                   /\ predict_proba(loaded.value, testdata.x)
                         = predict_proba(saved, testdata.x)
       /\ files' # files => (op'.name \in Saves /\ result'.err = "")
       /\ (op'.name \in Loads /\ result'.err = "")
             => Ok(adapters'[op'.a]) = load(files, dirs, op'.d)]_vars

\* A load has just returned an adapter that differs from every other instance:
\* the saved original was refitted or given another threshold after the save.
C5_Witness ==
    /\ op.name \in Loads
    /\ result.err = ""
    /\ \A a \in Ids \ {op.a} : adapters[a] # adapters[op.a]
    /\ \E a \in Ids \ {op.a} : adapters[a].is_trained

\* C6: predict and evaluate on an untrained adapter raise, for every table and
\* every threshold argument, return no labels and no score, and leave the
\* adapter's fields as they were.
C6_UntrainedInferenceFails ==
    [][(op'.name \in {"predict", "evaluate"} /\ ~adapters[op'.a].is_trained)
          => (result'.err # "" /\ result'.value = <<>> /\ adapters' = adapters)]_vars

\* evaluate with the sentinel has just raised NotFittedError on an untrained adapter.
C6_Witness ==
    /\ op.name = "evaluate"
    /\ op.t = Sentinel
    /\ Len(op.x) > 0
    /\ ~adapters[op.a].is_trained
    /\ result.err = "NotFittedError"

\* C7 as claimed: every adapter's decision_threshold lies in [0, 1].
C7_ThresholdInRange ==
    \A a \in Ids : adapters[a].decision_threshold \in 0 .. Unit

\* C7 as amended: the field holds the value last supplied for it. The constructor,
\* and train_predictor_model through it, stores the decision_threshold it is given
\* without a range check, set_decision_threshold stores its argument as it is, and
\* no other call changes the field of an existing instance.
C7_ThresholdIsLastSupplied ==
    [][/\ (op'.name \in {"construct", "train_predictor_model"} /\ result'.err = "")
             => adapters'[op'.a].decision_threshold = op'.t
       /\ op'.name = "set_decision_threshold"
             => adapters'[op'.a].decision_threshold = op'.t
       /\ \A a \in Ids :
             (op'.name # "set_decision_threshold" \/ op'.a # a)
                => adapters'[a].decision_threshold = adapters[a].decision_threshold]_vars

\* set_decision_threshold has just stored a threshold above 1.0.
C7_Witness ==
    /\ op.name = "set_decision_threshold"
    /\ op.t > Unit
    /\ adapters[op.a].decision_threshold = op.t

C9_SavePredictorModel ==
    [][op'.name = "save_predictor_model"
          => /\ dirs' = dirs \cup {op'.d}
             /\ adapters[op'.a].is_trained
                   => /\ result'.err = ""
                      /\ files'[Path(op'.d)] # NoFile
                      /\ load_predictor_model(files', dirs', op'.d) = Ok(adapters[op'.a])
             /\ ~adapters[op'.a].is_trained
                   => /\ result'.err = "NotFittedError"
                      /\ files' = files]_vars

\* save_predictor_model has just failed on an untrained adapter and left behind the
\* directory it created: the directory exists and holds no artifact.
C9_Witness ==
    /\ op.name = "save_predictor_model"
    /\ ~adapters[op.a].is_trained
    /\ result.err = "NotFittedError"
    /\ op.d \in dirs
    /\ files[Path(op.d)] = NoFile

\* C10: every predictor.joblib on disk holds an adapter whose trained flag is
\* true, every adapter a load returns is trained, and load of a directory with
\* no artifact raises.
C10_ArtifactsAreTrained ==
    /\ \A d \in DirPaths :
          files[Path(d)] # NoFile => (d \in dirs /\ Unpickle(files[Path(d)]).is_trained)
    /\ (op.name \in Loads /\ result.err = "") => adapters[op.a].is_trained
    /\ (op.name \in Loads /\ files[Path(op.d)] = NoFile) => result.err = "FileNotFoundError"

\* An untrained adapter's save has just failed on a directory that holds the
\* artifact of a trained one, which load still returns.
C10_Witness ==
    /\ op.name \in Saves
    /\ result.err = "NotFittedError"
    /\ files[Path(op.d)] # NoFile
    /\ load(files, dirs, op.d).err = ""
    /\ load(files, dirs, op.d).value.is_trained

====
